---- MODULE Spec2Model ----
(***************************************************************************)
(* Delivery status reconciliation of the courier <-> kitchen web API.      *)
(*                                                                         *)
(* The model covers the in-memory order table ORDERS, the order dicts it   *)
(* refers to, the kitchen sheet that orders are restored from, and the     *)
(* status callback update_order_status, split into steps at the points     *)
(* where it reads or writes shared state.  Python's None is the string     *)
(* "None"; datetime.utcnow() is a logical clock that advances with every   *)
(* call until it reaches MaxClock, and 0 as a timestamp means that the key *)
(* is absent or unset.                                                     *)
(***************************************************************************)
EXTENDS Integers, Sequences, FiniteSets, TLC

None == "None"

\* Python truthiness of the values the model uses (None and "" are falsy).
Falsy(x) == x = None \/ x = ""

----------------------------------------------------------------------------
(* delivery_fsm.py *)

DELIVERY_NEW == "delivery_new"
DELIVERY_IN_PROGRESS == "delivery_in_progress"
DELIVERED == "delivered"
CANCELLED == "cancelled"

\* The same without CANCELLED.
FINAL_STATES_delivered == {DELIVERED}

FINAL_STATES == {DELIVERED, CANCELLED}

\* A plausible slip in the table: a regression edge IN_PROGRESS -> NEW.
TRANSITIONS_regress ==
    [s \in {DELIVERY_NEW, DELIVERY_IN_PROGRESS, DELIVERED, CANCELLED} |->
        CASE s = DELIVERY_NEW -> {DELIVERY_NEW, DELIVERY_IN_PROGRESS, DELIVERED, CANCELLED}
          [] s = DELIVERY_IN_PROGRESS -> {DELIVERY_NEW, DELIVERY_IN_PROGRESS, DELIVERED, CANCELLED}
          [] s = DELIVERED -> {DELIVERED}
          [] s = CANCELLED -> {CANCELLED}]

TRANSITIONS ==
    [s \in {DELIVERY_NEW, DELIVERY_IN_PROGRESS, DELIVERED, CANCELLED} |->
        CASE s = DELIVERY_NEW -> {DELIVERY_NEW, DELIVERY_IN_PROGRESS, DELIVERED, CANCELLED}
          [] s = DELIVERY_IN_PROGRESS -> {DELIVERY_IN_PROGRESS, DELIVERED, CANCELLED}
          [] s = DELIVERED -> {DELIVERED}
          [] s = CANCELLED -> {CANCELLED}]

is_valid_transition(current, incoming) ==
    IF Falsy(current) \/ Falsy(incoming) THEN FALSE
    ELSE IF current \notin DOMAIN TRANSITIONS THEN FALSE
    ELSE IF TRANSITIONS[current] = {} THEN FALSE
    ELSE incoming \in TRANSITIONS[current]

is_final(status) ==
    IF Falsy(status) THEN FALSE ELSE status \in FINAL_STATES

----------------------------------------------------------------------------
(* main.py: vendor vocabulary *)

COURIER_TO_KITCHEN_STATUS ==
    [r \in {"created", "courier_assigned", "courier_departed",
            "order_on_hands", "delivered", "cancelled"} |->
        CASE r = "created" -> DELIVERY_NEW
          [] r = "courier_assigned" -> DELIVERY_IN_PROGRESS
          [] r = "courier_departed" -> DELIVERY_IN_PROGRESS
          [] r = "order_on_hands" -> DELIVERY_IN_PROGRESS
          [] r = "delivered" -> DELIVERED
          [] r = "cancelled" -> CANCELLED]

map_courier_status_to_kitchen(courier_status) ==
    IF courier_status \in DOMAIN COURIER_TO_KITCHEN_STATUS
    THEN COURIER_TO_KITCHEN_STATUS[courier_status]
    ELSE None

----------------------------------------------------------------------------
(* sheets_sync.py *)

\* A row of the orders sheet as values().get returns it for A:AD: the first
\* cell (A), a cell outside the delivery columns (B), and the delivery
\* columns T, U, V, X, Y, Z and AA.  A cell the row is too short to hold
\* reads as "", which is what safe_cell gives and what "if row else" gives
\* for the first cell of an empty row.
SheetRow(a, z, aa) ==
    [a |-> a, b |-> "legacy", t |-> "", u |-> "", v |-> "", x |-> "", y |-> "",
     z |-> z, aa |-> aa]

\* The same stripping blanks on the right only.
strip_right(s) ==
    CASE s \in {"a ", "a"} -> "a"
      [] s = " " -> ""
      [] OTHER -> s

\* str.strip() on the strings the model uses: an identifier with blanks
\* around it, and the blank string.
strip(s) ==
    CASE s \in {" a", "a ", " a ", "a"} -> "a"
      [] s = " " -> ""
      [] OTHER -> s

_norm(s) == strip(IF Falsy(s) THEN "" ELSE s)

\* Lines 74-79: the first row after the header whose first cell is the needle.
RECURSIVE FindTargetRow(_, _, _)
FindTargetRow(rows, idx, needle) ==
    IF idx > Len(rows) THEN 0
    ELSE IF _norm(rows[idx].a) = needle THEN idx
    ELSE FindTargetRow(rows, idx + 1, needle)

\* The same writing courier_sent_at and delivery_confirmed_at whatever the
\* row holds.
SyncData_overwrite(existing_row, args, now) ==
    [existing_row EXCEPT
        !.t = args.delivery_state,
        !.u = args.courier_status_raw,
        !.z = IF Falsy(args.courier_sent_at) THEN now ELSE args.courier_sent_at,
        !.v = IF args.courier_external_id # None THEN args.courier_external_id ELSE @,
        !.x = IF args.courier_status_detail # None THEN args.courier_status_detail ELSE @,
        !.y = IF args.courier_last_error # None THEN args.courier_last_error ELSE @,
        !.aa = IF ~Falsy(args.delivery_confirmed_at)
               THEN args.delivery_confirmed_at ELSE @]

\* Lines 88-141: the cells of the batch update, applied to the target row.
SyncData(existing_row, args, now) ==
    LET existing_sent_at == _norm(existing_row.z)
        existing_confirmed == _norm(existing_row.aa)
    IN  [existing_row EXCEPT
            !.t = args.delivery_state,
            !.u = args.courier_status_raw,
            !.z = IF Falsy(existing_sent_at)
                  THEN (IF Falsy(args.courier_sent_at) THEN now ELSE args.courier_sent_at)
                  ELSE @,
            !.v = IF args.courier_external_id # None THEN args.courier_external_id ELSE @,
            !.x = IF args.courier_status_detail # None THEN args.courier_status_detail ELSE @,
            !.y = IF args.courier_last_error # None THEN args.courier_last_error ELSE @,
            !.aa = IF ~Falsy(args.delivery_confirmed_at) /\ Falsy(existing_confirmed)
                   THEN args.delivery_confirmed_at ELSE @]

\* The same with a handler that catches the failures of the sheets service
\* only.
except_Exception_service(path) ==
    IF path = "not_found" THEN "raised" ELSE "returned"

\* Lines 59 and 154-156: the whole body is inside try, and the handler
\* prints whatever was raised; the function then returns.
except_Exception(path) == "returned"

\* The way through the body.  When no row matches, line 82 calls log.error,
\* and sheets_sync.py defines no log: the NameError goes to the handler like
\* the failures of the service.
sync_delivery_status_to_kitchen(rows, order_id, args, now, svc) ==
    LET needle == _norm(order_id)
        target_row == FindTargetRow(rows, 2, needle)
        path == IF svc = "read_fails" THEN "read_raised"
                ELSE IF Len(rows) < 2 THEN "too_few_rows"
                ELSE IF target_row = 0 THEN "not_found"
                ELSE IF svc = "write_fails" THEN "write_raised"
                ELSE "written"
    IN  [rows |-> IF path = "written"
                  THEN [rows EXCEPT ![target_row] = SyncData(@, args, now)]
                  ELSE rows,
         path |-> path,
         target_row |-> IF path \in {"written", "write_raised"} THEN target_row ELSE 0,
         result |-> except_Exception(path)]

----------------------------------------------------------------------------
(* Bounds and input sets *)

\* The logical clock stops advancing here: calls later than this read the
\* same time.
MaxClock == 2

\* The number of calls a run with overlapping handlers takes.
MaxConcurrentCalls == 2

Procs == {1, 2}

\* Identifiers: canonical ids and external delivery ids.  "o1"/"x1" is the
\* order made by create_order, "o2"/"x2" the order held by the sheet.
OrderIds == {"o1", "x1", "o2", "x2"}

\* The identifiers callers pass: those of the order the run can hold, known
\* to the program or not (before create_order, without a courier reply,
\* without a matching row).
\* Runs with overlapping handlers address the order by its canonical id.
CallerIds(sh, overlapping) ==
    IF overlapping THEN (IF sh = << >> THEN {"o1"} ELSE {"o2"})
    ELSE IF sh = << >> THEN {"o1", "x1"} ELSE {"o2", "x2"}

\* Vendor statuses a callback may carry; "weird_status" is not in the table.
\* Runs with overlapping handlers carry the two statuses of a delivery run.
RawStatuses(overlapping) ==
    IF overlapping THEN {"courier_departed", "delivered"}
    ELSE {"created", "courier_assigned", "courier_departed", "delivered",
          "cancelled", "weird_status"}

\* Optional payload of a callback: nothing, or eta_minutes and a proof file id.
\* Runs with overlapping handlers carry none.
PayloadExtras(overlapping) ==
    IF overlapping THEN { [eta_minutes |-> None, proof_image_file_id |-> None] }
    ELSE { [eta_minutes |-> None, proof_image_file_id |-> None],
           [eta_minutes |-> "15", proof_image_file_id |-> "file1"] }

\* What a collaborator may do during a call: any of its behaviours, and only
\* the healthy one in runs with overlapping handlers.
Behaviours(all, healthy, overlapping) == IF overlapping THEN {healthy} ELSE all

KITCHENS_REGISTRY == {1, 2, 3, 4, 5}

\* Requests to create_order: source, kitchen_id (99 is not registered),
\* whether pickup_eta_at is given (the courier is requested), and what
\* create_courier_order does (returns an external delivery id or raises).
CreateRequests ==
    { [source |-> "kitchen", kitchen_id |-> 1, requested |-> TRUE, reply |-> "x1"],
      [source |-> "kitchen", kitchen_id |-> 1, requested |-> TRUE, reply |-> "raise"],
      [source |-> "kitchen", kitchen_id |-> 99, requested |-> TRUE, reply |-> "x1"],
      [source |-> "kitchen", kitchen_id |-> 1, requested |-> FALSE, reply |-> "raise"],
      [source |-> "webapp", kitchen_id |-> 1, requested |-> TRUE, reply |-> "x1"],
      [source |-> "webapp", kitchen_id |-> 1, requested |-> FALSE, reply |-> "raise"] }

\* The orders sheet of a kitchen, as load_order_from_sheets reads it: per
\* row whether the B cell is a number (the client's chat id), the canonical
\* id cell (C), the delivery state cell (T, None when the row is too short to
\* hold it) and the external id cell (W).
SheetConfigs ==
    { << >>,
      << [kitchen |-> 1, tg |-> FALSE, c |-> "o2", t |-> None, w |-> "x2"] >>,
      << [kitchen |-> 1, tg |-> FALSE, c |-> "o2", t |-> "pending", w |-> ""] >>,
      << [kitchen |-> 2, tg |-> TRUE, c |-> "o2", t |-> DELIVERY_NEW, w |-> "x2"] >>,
      << [kitchen |-> 2, tg |-> TRUE, c |-> "o2", t |-> DELIVERED, w |-> "x2"] >>,
      << [kitchen |-> 3, tg |-> TRUE, c |-> "", t |-> CANCELLED, w |-> "x2"] >> }

\* The order ids sync calls carry: that of a row, the same with blanks
\* around it, that of another row, one no row holds, and none.
SyncOrderIds == {"a", " a ", "b", "zz", None}

\* The other arguments of sync calls: as the status handler passes them
\* (state, raw status and external id), with every optional argument given,
\* and with blank strings for the two timestamps.
SyncArgs ==
    { [delivery_state |-> DELIVERY_NEW, courier_status_raw |-> "created",
       courier_external_id |-> "x1", courier_status_detail |-> None,
       courier_last_error |-> None, courier_sent_at |-> None,
       delivery_confirmed_at |-> None],
      [delivery_state |-> DELIVERED, courier_status_raw |-> "delivered",
       courier_external_id |-> None, courier_status_detail |-> "delivered",
       courier_last_error |-> "invalid_transition", courier_sent_at |-> "s2",
       delivery_confirmed_at |-> "c1"],
      [delivery_state |-> DELIVERY_IN_PROGRESS, courier_status_raw |-> "courier_departed",
       courier_external_id |-> None, courier_status_detail |-> None,
       courier_last_error |-> None, courier_sent_at |-> " ",
       delivery_confirmed_at |-> " "] }

\* Sync calls: every id with every set of arguments while the service
\* works, and every id with the 'delivered' arguments while it fails.
SyncCalls ==
    [order_id : SyncOrderIds, args : SyncArgs, svc : {"ok"}]
    \cup { c \in [order_id : SyncOrderIds, args : SyncArgs,
                  svc : {"read_fails", "write_fails"}] :
             c.args.courier_status_raw = "delivered" }

\* The orders sheet before the first sync call: without values, with the
\* header only, with two order rows (the first cell of one padded with
\* blanks, the other already sent and confirmed), with two rows of the same
\* id, and with an empty row before the order's row.
StoreConfigs ==
    { << >>,
      << SheetRow("order_id", "", "") >>,
      << SheetRow("order_id", "", ""), SheetRow(" a ", "", ""), SheetRow("b", "s0", "c0") >>,
      << SheetRow("order_id", "", ""), SheetRow("a", "", ""), SheetRow("a ", "", "") >>,
      << SheetRow("order_id", "", ""), SheetRow("", "", ""), SheetRow(" a", "s0", "") >> }

----------------------------------------------------------------------------
(* State *)

VARIABLES
    ORDERS,     \* main.ORDERS: key -> reference into heap (0: no such key)
    keyOrder,   \* insertion order of the keys of ORDERS (dict iteration order)
    heap,       \* the order dicts, by reference
    sheet,      \* rows of the orders sheet
    procs,      \* in-flight handlers: position and locals
    res,        \* per handler slot, what its last finished call returned and did
    lastOut,    \* per order dict, outcome and mapped status of the last finished callback,
                \* and whether a completed event was emitted for the order
    clock,      \* datetime.utcnow()
    conc,       \* whether handlers may overlap (threadpool) or run one at a time
    fsm,        \* inputs and results of the pure FSM predicates
    store,      \* rows of the orders sheet as sheets_sync reads and writes them
    syn         \* the last call of sync_delivery_status_to_kitchen and what it did

vars == <<ORDERS, keyOrder, heap, sheet, procs, res, lastOut, clock, conc, fsm,
          store, syn>>

NoOrder ==
    [order_id |-> None, source |-> None, kitchen_id |-> 0,
     pickup_eta_at |-> None, pickup_eta_source |-> None,
     courier_decision |-> None, status |-> None,
     delivery_provider |-> None, delivery_order_id |-> None,
     courier_failed |-> FALSE, courier_last_error |-> None,
     courier_status_detail |-> None, courier_updated_at |-> 0,
     delivery_confirmed_at |-> 0, eta_minutes |-> None,
     proof_image_file_id |-> None, fanout_last_error |-> None,
     client_tg_id |-> FALSE, kitchen_tg_chat_id |-> FALSE,
     last_client_notify_at |-> 0, last_client_notify_text |-> None,
     last_client_notify_skipped |-> FALSE, delivery_state |-> None]

IdleProc ==
    [pc |-> "idle", order_id |-> None, status |-> None, eta_minutes |-> None,
     proof_image_file_id |-> None, order |-> 0, canonical_id |-> None,
     raw_current_status |-> None, current_status |-> None,
     mapped_status |-> None, pre |-> NoOrder, read |-> None,
     ev |-> <<>>, sy |-> <<>>, nt |-> <<>>, n |-> 0]

NoResult ==
    [n |-> 0, entry |-> None, order_id |-> None, status |-> None,
     eta_minutes |-> None, proof_image_file_id |-> None, order |-> 0,
     out |-> None, mapped_status |-> None, pre |-> NoOrder,
     prevOut |-> None, prevMapped |-> None, prevCompleted |-> FALSE,
     read |-> None, created |-> None,
     ev |-> <<>>, sy |-> <<>>, nt |-> <<>>]

NoSync ==
    [called |-> FALSE, order_id |-> None, args |-> None, svc |-> None,
     path |-> None, target_row |-> 0, result |-> None]

FsmValues == {DELIVERY_NEW, DELIVERY_IN_PROGRESS, DELIVERED, CANCELLED,
              None, "", "pending", "courier_not_requested", "created", "DELIVERED"}

InitCommon ==
    /\ ORDERS = [k \in OrderIds |-> 0]
    /\ keyOrder = <<>>
    /\ heap = <<>>
    /\ procs = [p \in Procs |-> IdleProc]
    /\ res = [p \in Procs |-> NoResult]
    /\ lastOut = <<>>
    /\ clock = 1
    /\ syn = NoSync

Init ==
    /\ InitCommon
    /\ sheet \in SheetConfigs
    /\ conc = FALSE
    /\ store = << >>
    /\ fsm = [current |-> None, incoming |-> None, applied |-> FALSE,
              valid |-> FALSE, final |-> FALSE]

----------------------------------------------------------------------------
(* The FSM predicates applied to drawn inputs *)

InitFsm ==
    /\ InitCommon
    /\ sheet = <<>>
    /\ conc = FALSE
    /\ store = << >>
    /\ fsm \in [current : FsmValues, incoming : FsmValues, applied : {FALSE},
                valid : {FALSE}, final : {FALSE}]

FsmApply ==
    /\ ~fsm.applied
    /\ fsm' = [fsm EXCEPT !.applied = TRUE,
                          !.valid = is_valid_transition(fsm.current, fsm.incoming),
                          !.final = is_final(fsm.current)]
    /\ UNCHANGED <<ORDERS, keyOrder, heap, sheet, procs, res, lastOut, clock, conc,
                   store, syn>>

NextFsm == FsmApply

SpecFsm == InitFsm /\ [][NextFsm]_vars

----------------------------------------------------------------------------
(* Order creation: create_order *)

CreatedOrder(oid, src, kid, requested, reply) ==
    LET delivery_order_id == IF requested /\ reply # "raise" THEN reply ELSE None
    IN  [NoOrder EXCEPT
            !.order_id = oid,
            !.source = src,
            !.kitchen_id = kid,
            !.client_tg_id = TRUE,
            !.kitchen_tg_chat_id = (kid \in KITCHENS_REGISTRY),
            !.pickup_eta_at = IF requested THEN "eta" ELSE None,
            !.courier_decision = IF requested THEN "requested" ELSE "not_requested",
            !.status = IF requested THEN DELIVERY_NEW ELSE "courier_not_requested",
            !.delivery_provider = IF requested THEN "courier" ELSE None,
            !.delivery_order_id = delivery_order_id,
            !.courier_failed = (requested /\ delivery_order_id = None),
            !.courier_last_error =
                IF delivery_order_id # None THEN None ELSE "courier_create_failed"]

Insert(key, rec) ==
    /\ heap' = Append(heap, rec)
    /\ lastOut' = Append(lastOut, [out |-> None, mapped |-> None, completed |-> FALSE])
    /\ ORDERS' = [ORDERS EXCEPT ![key] = Len(heap) + 1]
    /\ keyOrder' = IF ORDERS[key] = 0 THEN Append(keyOrder, key) ELSE keyOrder

\* The answer of a creation endpoint, with whether it called the courier
\* service on the way.
OrderCreateResponse(status, external_delivery_ref, already_exists, courier_called) ==
    [status |-> status, external_delivery_ref |-> external_delivery_ref,
     already_exists |-> already_exists, courier_called |-> courier_called]

Created(entry, oid, o, response) ==
    res' = [res EXCEPT ![1] =
                [NoResult EXCEPT !.entry = entry, !.order_id = oid, !.order = o,
                                 !.out = response.status, !.created = response]]

\* create_order without the idempotency test.
create_order_reinsert(oid, rq) ==
    /\ Insert(oid, CreatedOrder(oid, rq.source, rq.kitchen_id, rq.requested, rq.reply))
    /\ Created("create_order", oid, Len(heap) + 1,
               OrderCreateResponse("ok", IF rq.requested /\ rq.reply # "raise"
                                         THEN rq.reply ELSE None,
                                   FALSE, rq.requested))

\* create_order from its idempotency test on: an order id the table holds is
\* answered from the stored record, any other makes a new record.
create_order_idempotency(oid, rq) ==
    IF ORDERS[oid] # 0
    THEN /\ Created("create_order", oid, ORDERS[oid],
                    OrderCreateResponse("ok", heap[ORDERS[oid]].delivery_order_id,
                                        TRUE, FALSE))
         /\ UNCHANGED <<ORDERS, keyOrder, heap, lastOut>>
    ELSE /\ Insert(oid, CreatedOrder(oid, rq.source, rq.kitchen_id, rq.requested, rq.reply))
         /\ Created("create_order", oid, Len(heap) + 1,
                    OrderCreateResponse("ok", IF rq.requested /\ rq.reply # "raise"
                                              THEN rq.reply ELSE None,
                                        FALSE, rq.requested))

create_order ==
    \E rq \in IF sheet = << >> THEN CreateRequests ELSE {} :
        /\ \A p \in Procs : procs[p].pc = "idle"
        /\ create_order_idempotency("o1", rq)
        /\ UNCHANGED <<sheet, procs, clock, conc, fsm, store, syn>>

----------------------------------------------------------------------------
(* update_order_status, POST /api/v1/orders/{order_id}/status *)

\* Finishing a call: the handler slot records what was returned and done.
Return(p, out, pr) ==
    /\ res' = [res EXCEPT ![p] =
            [n |-> pr.n, entry |-> "status", order_id |-> pr.order_id,
             status |-> pr.status, eta_minutes |-> pr.eta_minutes,
             proof_image_file_id |-> pr.proof_image_file_id,
             order |-> pr.order, out |-> out,
             mapped_status |-> pr.mapped_status, pre |-> pr.pre,
             prevOut |-> IF pr.order = 0 THEN None ELSE lastOut[pr.order].out,
             prevMapped |-> IF pr.order = 0 THEN None ELSE lastOut[pr.order].mapped,
             prevCompleted |-> IF pr.order = 0 THEN FALSE ELSE lastOut[pr.order].completed,
             read |-> pr.read, created |-> None,
             ev |-> pr.ev, sy |-> pr.sy, nt |-> pr.nt]]
    /\ procs' = [procs EXCEPT ![p] = IdleProc]

Remember(p, out, pr) ==
    lastOut' = IF pr.order = 0 THEN lastOut
               ELSE [lastOut EXCEPT ![pr.order] =
                        [out |-> out, mapped |-> pr.mapped_status,
                         completed |-> \/ @.completed
                                       \/ \E i \in DOMAIN pr.ev :
                                              pr.ev[i].event = "delivery_completed"]]

\* Handlers run on worker threads: with conc they overlap, without it a call
\* starts when no other is in progress.
Admit(p) ==
    /\ procs[p].pc = "idle"
    /\ IF conc THEN clock <= MaxConcurrentCalls
               ELSE (p = 1 /\ \A q \in Procs : procs[q].pc = "idle")

Tick ==
    clock' = IF conc \/ clock < MaxClock THEN clock + 1 ELSE clock

\* A request arrives and a handler starts on it.
Begin(p) ==
    \E oid \in CallerIds(sheet, conc), st \in RawStatuses(conc),
       extra \in PayloadExtras(conc) :
        /\ Admit(p)
        /\ Tick
        /\ procs' = [procs EXCEPT ![p] =
                [IdleProc EXCEPT !.pc = "locate", !.order_id = oid, !.status = st,
                                 !.eta_minutes = extra.eta_minutes,
                                 !.proof_image_file_id = extra.proof_image_file_id,
                                 !.n = clock]]
        /\ res' = [res EXCEPT ![p] = NoResult]
        /\ UNCHANGED <<ORDERS, keyOrder, heap, sheet, lastOut, conc, fsm, store, syn>>

\* next(o for o in ORDERS.values() if o.get("delivery_order_id") == order_id)
RECURSIVE ScanByExternalId(_, _)
ScanByExternalId(i, order_id) ==
    IF i > Len(keyOrder) THEN 0
    ELSE IF heap[ORDERS[keyOrder[i]]].delivery_order_id = order_id
         THEN ORDERS[keyOrder[i]]
         ELSE ScanByExternalId(i + 1, order_id)

LiveLookup(order_id) ==
    IF ORDERS[order_id] # 0 THEN ORDERS[order_id] ELSE ScanByExternalId(1, order_id)

\* Lines 887-904: live lookup by key, then by external id; eta is written
\* as soon as the order is found.
Locate(p) ==
    LET pr == procs[p]
        o == LiveLookup(pr.order_id)
    IN  /\ pr.pc = "locate"
        /\ IF o # 0
           THEN /\ heap' = IF pr.eta_minutes # None
                           THEN [heap EXCEPT ![o].eta_minutes = pr.eta_minutes]
                           ELSE heap
                /\ procs' = [procs EXCEPT ![p].pc = "guards", ![p].order = o,
                                          ![p].pre = heap[o]]
           ELSE /\ procs' = [procs EXCEPT ![p].pc = "restore"]
                /\ UNCHANGED heap
        /\ UNCHANGED <<ORDERS, keyOrder, sheet, res, lastOut, clock, conc, fsm, store, syn>>

\* load_order_from_sheets: the first row whose C cell is the id or whose
\* non-empty W cell is the id.
RECURSIVE FindRow(_, _)
FindRow(i, order_id) ==
    IF i > Len(sheet) THEN 0
    ELSE IF sheet[i].c = order_id \/ (sheet[i].w # "" /\ sheet[i].w = order_id)
         THEN i
         ELSE FindRow(i + 1, order_id)

\* The same with the record identified by the id of the request instead of
\* the row's canonical id.
RestoredOrder_byRequestId(row, order_id) ==
    [NoOrder EXCEPT
        !.order_id = order_id,
        !.kitchen_id = row.kitchen,
        !.client_tg_id = row.tg,
        !.status = row.t,
        !.delivery_order_id = IF row.w # "" THEN row.w ELSE None,
        !.courier_decision = "requested",
        !.delivery_provider = "courier",
        !.source = "kitchen"]

RestoredOrder(row, order_id) ==
    [NoOrder EXCEPT
        !.order_id = IF row.c # "" THEN row.c ELSE order_id,
        !.kitchen_id = row.kitchen,
        !.client_tg_id = row.tg,
        !.status = row.t,
        !.delivery_order_id = IF row.w # "" THEN row.w ELSE None,
        !.courier_decision = "requested",
        !.delivery_provider = "courier",
        !.source = "kitchen"]

\* Whether the sheets service answers a read; a failure is caught inside
\* load_order_from_sheets, which then returns None.
SheetsReads == {"ok", "fails"}

\* The same returning the first row of the sheet, matching or not.
load_order_from_sheets_firstrow(order_id, read) ==
    IF read = "fails" THEN 0 ELSE IF Len(sheet) > 0 THEN 1 ELSE 0

load_order_from_sheets(order_id, read) ==
    IF read = "fails" THEN 0 ELSE FindRow(1, order_id)

\* Lines 910-936: restore from the sheet and insert, or 404.
Restore(p) ==
    LET pr == procs[p] IN
    \E read \in Behaviours(SheetsReads, "ok", conc) :
        LET r == load_order_from_sheets(pr.order_id, read) IN
        /\ pr.pc = "restore"
        /\ IF r # 0
           THEN LET restored == RestoredOrder(sheet[r], pr.order_id) IN
                /\ Insert(restored.order_id, restored)
                /\ procs' = [procs EXCEPT ![p].pc = "guards",
                                          ![p].order = Len(heap) + 1,
                                          ![p].pre = restored,
                                          ![p].read = read]
                /\ UNCHANGED res
           ELSE /\ Return(p, "not_found", [pr EXCEPT !.read = read])
                /\ UNCHANGED <<ORDERS, keyOrder, heap, lastOut>>
        /\ UNCHANGED <<sheet, clock, conc, fsm, store, syn>>


emit_event(ev, event_type, order_id) ==
    Append(ev, [event |-> event_type, order_id |-> order_id])

\* Lines 941-970: the three guards, in the order the handler tests them.
\* The same without the check of the kitchen's decision.
GuardOutcome_nodecision(order) ==
    IF order.source # "kitchen" THEN "ignored_not_kitchen_order"
    ELSE IF order.delivery_provider # "courier" /\ ~order.courier_failed
         THEN "ignored_not_managed_by_courier"
    ELSE "pass"

\* The same with the provider guard tested before the source guard.
GuardOutcome_providerfirst(order) ==
    IF order.courier_decision = "not_requested" THEN "ignored_courier_not_requested"
    ELSE IF order.delivery_provider # "courier" /\ ~order.courier_failed
         THEN "ignored_not_managed_by_courier"
    ELSE IF order.source # "kitchen" THEN "ignored_not_kitchen_order"
    ELSE "pass"

\* The same without the provider guard.
GuardOutcome_noprovider(order) ==
    IF order.courier_decision = "not_requested" THEN "ignored_courier_not_requested"
    ELSE IF order.source # "kitchen" THEN "ignored_not_kitchen_order"
    ELSE "pass"

GuardOutcome(order) ==
    IF order.courier_decision = "not_requested" THEN "ignored_courier_not_requested"
    ELSE IF order.source # "kitchen" THEN "ignored_not_kitchen_order"
    ELSE IF order.delivery_provider # "courier" /\ ~order.courier_failed
         THEN "ignored_not_managed_by_courier"
    ELSE "pass"

\* The same with the FSM gate left out: whatever is not unknown or a repeat is applied.
Decide_ungated(current_status, mapped_status, first_courier_update) ==
    IF Falsy(mapped_status) THEN "unknown_status"
    ELSE IF mapped_status = current_status /\ ~first_courier_update THEN "idempotent"
    ELSE "apply"

\* The same without the repeat test of line 1019.
Decide_norepeat(current_status, mapped_status, first_courier_update) ==
    IF Falsy(mapped_status) THEN "unknown_status"
    ELSE IF is_final(current_status) THEN "final"
    ELSE IF ~is_valid_transition(current_status, mapped_status) THEN "rejected"
    ELSE "apply"

\* The same with an unmapped status sent on to the FSM instead of being answered.
Decide_nounknown(current_status, mapped_status, first_courier_update) ==
    IF mapped_status = current_status /\ ~first_courier_update THEN "idempotent"
    ELSE IF is_final(current_status) THEN "final"
    ELSE IF ~is_valid_transition(current_status, mapped_status) THEN "rejected"
    ELSE "apply"

\* Lines 1008-1036: which branch a callback that passed the guards takes.
\* The same with the finality check placed after the transition check.
Decide_finalafter(current_status, mapped_status, first_courier_update) ==
    IF Falsy(mapped_status) THEN "unknown_status"
    ELSE IF mapped_status = current_status /\ ~first_courier_update THEN "idempotent"
    ELSE IF ~is_valid_transition(current_status, mapped_status) THEN "rejected"
    ELSE IF is_final(current_status) THEN "final"
    ELSE "apply"

Decide(current_status, mapped_status, first_courier_update) ==
    IF Falsy(mapped_status) THEN "unknown_status"
    ELSE IF mapped_status = current_status /\ ~first_courier_update THEN "idempotent"
    ELSE IF is_final(current_status) THEN "final"
    ELSE IF ~is_valid_transition(current_status, mapped_status) THEN "rejected"
    ELSE "apply"

\* The same recording the proof only.
Annotated_proofonly(order, pr) ==
    [order EXCEPT
        !.proof_image_file_id =
            IF ~Falsy(pr.proof_image_file_id) THEN pr.proof_image_file_id ELSE @]

\* The annotations without the time of the update.
Annotated_notime(order, pr) ==
    [order EXCEPT
        !.proof_image_file_id =
            IF ~Falsy(pr.proof_image_file_id) THEN pr.proof_image_file_id ELSE @,
        !.courier_status_detail = pr.status]

\* Lines 985-1002: the proof of the payload, then the raw courier status and
\* the time of the update, written before the status is mapped.
Annotated(order, pr) ==
    [order EXCEPT
        !.proof_image_file_id =
            IF ~Falsy(pr.proof_image_file_id) THEN pr.proof_image_file_id ELSE @,
        !.courier_status_detail = pr.status,
        !.courier_updated_at = pr.n]

\* Lines 939-1062: the guards, the unconditional annotations, the mapping
\* and the branches that end the call without touching order["status"].
Guards(p) ==
    LET pr == procs[p]
        o == pr.order
        order == heap[o]
        canonical_id == IF ~Falsy(order.order_id) THEN order.order_id ELSE pr.order_id
        guard == GuardOutcome(order)
        raw_current_status == order.status
        current_status == IF raw_current_status = "pending" THEN None
                          ELSE raw_current_status
        first_courier_update == (order.courier_updated_at = 0)
        mapped_status == map_courier_status_to_kitchen(pr.status)
        branch == Decide(current_status, mapped_status, first_courier_update)
        annotated == Annotated(order, pr)
        pr2 == [pr EXCEPT !.canonical_id = canonical_id,
                          !.raw_current_status = raw_current_status,
                          !.current_status = current_status,
                          !.mapped_status = mapped_status]
    IN
    /\ pr.pc = "guards"
    /\ IF guard # "pass"
       THEN /\ Return(p, guard, pr)
            /\ Remember(p, guard, pr)
            /\ UNCHANGED heap
       ELSE CASE branch = "unknown_status" ->
                 /\ heap' = [heap EXCEPT ![o] =
                        [annotated EXCEPT !.courier_last_error = "unknown_courier_status"]]
                 /\ LET pr3 == [pr2 EXCEPT !.ev =
                            emit_event(@, "delivery_status_unknown", canonical_id)]
                    IN  Return(p, "unknown_status", pr3) /\ Remember(p, "unknown_status", pr3)
              [] branch = "idempotent" ->
                 /\ heap' = [heap EXCEPT ![o] = annotated]
                 /\ Return(p, "idempotent", pr2)
                 /\ Remember(p, "idempotent", pr2)
              [] branch = "final" ->
                 /\ heap' = [heap EXCEPT ![o] = annotated]
                 /\ LET pr3 == [pr2 EXCEPT !.ev =
                            emit_event(@, "delivery_status_ignored_final", canonical_id)]
                    IN  Return(p, "final", pr3) /\ Remember(p, "final", pr3)
              [] branch = "rejected" ->
                 /\ heap' = [heap EXCEPT ![o] =
                        [annotated EXCEPT !.courier_last_error = "invalid_transition"]]
                 /\ procs' = [procs EXCEPT ![p] =
                        [pr2 EXCEPT !.pc = "rej_sync",
                                    !.ev = emit_event(@, "delivery_status_rejected",
                                                      canonical_id)]]
                 /\ UNCHANGED <<res, lastOut>>
              [] branch = "apply" ->
                 /\ heap' = [heap EXCEPT ![o] = annotated]
                 /\ procs' = [procs EXCEPT ![p] = [pr2 EXCEPT !.pc = "apply"]]
                 /\ UNCHANGED <<res, lastOut>>
    /\ UNCHANGED <<ORDERS, keyOrder, sheet, clock, conc, fsm, store, syn>>

----------------------------------------------------------------------------
(* Side effects of update_order_status *)

\* get_sheets_service_safe() returns the service or raises.
SheetsServiceStates == {"up", "down"}

\* What the call of sync_delivery_status_to_kitchen itself does once its
\* arguments are evaluated.  sheets_sync.py names the third parameter
\* order_id while both call sites pass canonical_id=..., so with the module
\* as imported the call raises TypeError; the tests substitute a collaborator
\* that accepts the keywords and returns.
SyncCallOutcomes == {"returned", "raised"}

\* The sync statement at lines 1052-1061 and 1088-1102: argument evaluation
\* (sheets service, spreadsheet id of the order's kitchen), then the call.
SyncStatement(order, svc, call) ==
    IF svc = "down" THEN "raised_sheets_service"
    ELSE IF order.kitchen_id \notin KITCHENS_REGISTRY THEN "raised_kitchen_not_found"
    ELSE call

\* A sync call that passes the order's own status as delivery_state.
SyncEntry_own_status(pr, order, result, with_confirmed) ==
    [canonical_id |-> pr.canonical_id,
     delivery_state |-> order.status,
     courier_status_raw |-> pr.status,
     courier_external_id |-> order.delivery_order_id,
     courier_last_error |-> order.courier_last_error,
     delivery_confirmed_at |-> with_confirmed,
     result |-> result]

SyncEntry(pr, order, result, with_confirmed) ==
    [canonical_id |-> pr.canonical_id,
     delivery_state |-> pr.mapped_status,
     courier_status_raw |-> pr.status,
     courier_external_id |-> order.delivery_order_id,
     courier_last_error |-> order.courier_last_error,
     delivery_confirmed_at |-> with_confirmed,
     result |-> result]

\* Lines 1051-1062: the sync of a rejected transition; nothing catches.
RejSync(p) ==
    LET pr == procs[p]
        order == heap[pr.order]
    IN
    \E svc \in Behaviours(SheetsServiceStates, "up", conc),
       call \in Behaviours(SyncCallOutcomes, "returned", conc) :
        LET result == SyncStatement(order, svc, call)
            pr2 == [pr EXCEPT !.sy = Append(@, SyncEntry(pr, order, result, FALSE))]
            out == IF result = "returned" THEN "rejected" ELSE "error"
        IN  /\ pr.pc = "rej_sync"
            /\ Return(p, out, pr2)
            /\ Remember(p, out, pr2)
            /\ UNCHANGED <<ORDERS, keyOrder, heap, sheet, clock, conc, fsm, store, syn>>

\* Lines 1066-1073: the new status is written, proof is merged again.
Apply(p) ==
    LET pr == procs[p] IN
    /\ pr.pc = "apply"
    /\ heap' = [heap EXCEPT ![pr.order] =
            [@ EXCEPT !.status = pr.mapped_status,
                      !.proof_image_file_id =
                          IF ~Falsy(pr.proof_image_file_id)
                          THEN pr.proof_image_file_id ELSE @]]
    /\ procs' = [procs EXCEPT ![p].pc = "fanout"]
    /\ UNCHANGED <<ORDERS, keyOrder, sheet, res, lastOut, clock, conc, fsm, store, syn>>

\* What the Telegram send does; a failure is caught in notify_kitchen_safe.
NotifierStates == {"ok", "fails"}

\* notify_client_safe: skipped without client_tg_id, else the stub records
\* the notification on the order.
notify_client_safe(st, text) ==
    IF ~st.order.client_tg_id
    THEN [st EXCEPT !.order.last_client_notify_skipped = TRUE]
    ELSE [order |-> [st.order EXCEPT !.last_client_notify_at = st.now,
                                     !.last_client_notify_text = text],
          now |-> st.now,
          nt |-> Append(st.nt, [to |-> "client", text |-> text, sent |-> "ok"])]

\* notify_kitchen_safe: skipped without a chat id, else one send.
notify_kitchen_safe(st, text, tg) ==
    IF ~st.order.kitchen_tg_chat_id THEN st
    ELSE [st EXCEPT !.nt = Append(@, [to |-> "kitchen", text |-> text, sent |-> tg])]

\* delivery_fanout.fanout_delivery_status (the definition at lines 74-105,
\* which replaces the earlier one of the same name).
fanout_delivery_status(st, courier_status, kitchen_status, tg) ==
    LET s1 == notify_kitchen_safe(st, kitchen_status, tg)
        s2 == IF kitchen_status = DELIVERY_IN_PROGRESS
              THEN notify_client_safe(s1, "courier_departed") ELSE s1
        s3 == IF courier_status = "order_on_hands"
              THEN notify_client_safe(s2, "order_on_hands") ELSE s2
        s4 == IF kitchen_status = DELIVERED
              THEN notify_client_safe(s3, "delivered") ELSE s3
    IN  s4

\* Lines 1075-1087: fan-out, then the decision whether to sync.
Fanout(p) ==
    LET pr == procs[p] IN
    \E tg \in Behaviours(NotifierStates, "ok", conc) :
        LET st == fanout_delivery_status(
                      [order |-> heap[pr.order], now |-> pr.n, nt |-> pr.nt],
                      pr.status, pr.mapped_status, tg)
            delivery_external_id == st.order.delivery_order_id
            fanned == Append(st.nt, [to |-> "fanout", text |-> pr.mapped_status, sent |-> "ok"])
        IN  /\ pr.pc = "fanout"
            /\ heap' = [heap EXCEPT ![pr.order] = st.order]
            /\ procs' = [procs EXCEPT
                    ![p].nt = fanned,
                    ![p].pc = IF pr.current_status = None \/ ~Falsy(delivery_external_id)
                              THEN "sync" ELSE "finish"]
            /\ UNCHANGED <<ORDERS, keyOrder, sheet, res, lastOut, clock, conc, fsm, store, syn>>

\* Lines 1088-1102: the sync of the applied status; nothing catches.
Sync(p) ==
    LET pr == procs[p]
        order == heap[pr.order]
    IN
    \E svc \in Behaviours(SheetsServiceStates, "up", conc),
       call \in Behaviours(SyncCallOutcomes, "returned", conc) :
        LET result == SyncStatement(order, svc, call)
            pr2 == [pr EXCEPT !.sy = Append(@, SyncEntry(pr, order, result,
                                                        pr.mapped_status = DELIVERED))]
        IN  /\ pr.pc = "sync"
            /\ IF result = "returned"
               THEN /\ procs' = [procs EXCEPT ![p] = [pr2 EXCEPT !.pc = "finish"]]
                    /\ UNCHANGED <<res, lastOut>>
               ELSE /\ Return(p, "error", pr2)
                    /\ Remember(p, "error", pr2)
            /\ UNCHANGED <<ORDERS, keyOrder, heap, sheet, clock, conc, fsm, store, syn>>

\* The same without the status_changed event.
Finish_nochanged(p) ==
    LET pr == procs[p]
        order == heap[pr.order]
    IN  /\ pr.pc = "finish"
        /\ IF pr.mapped_status = DELIVERED /\ order.delivery_confirmed_at = 0
           THEN /\ procs' = [procs EXCEPT ![p] = [pr EXCEPT !.pc = "confirm"]]
                /\ UNCHANGED <<res, lastOut>>
           ELSE /\ Return(p, "applied", pr)
                /\ Remember(p, "applied", pr)
        /\ UNCHANGED <<ORDERS, keyOrder, heap, sheet, clock, conc, fsm, store, syn>>

\* Lines 1104-1115: the status_changed event and the test of
\* delivery_confirmed_at.
Finish(p) ==
    LET pr == procs[p]
        order == heap[pr.order]
        pr2 == [pr EXCEPT !.ev = emit_event(@, "delivery_status_changed", pr.canonical_id)]
    IN  /\ pr.pc = "finish"
        /\ IF pr.mapped_status = DELIVERED /\ order.delivery_confirmed_at = 0
           THEN /\ procs' = [procs EXCEPT ![p] = [pr2 EXCEPT !.pc = "confirm"]]
                /\ UNCHANGED <<res, lastOut>>
           ELSE /\ Return(p, "applied", pr2)
                /\ Remember(p, "applied", pr2)
        /\ UNCHANGED <<ORDERS, keyOrder, heap, sheet, clock, conc, fsm, store, syn>>

\* Lines 1116-1127: delivery_confirmed_at is written, completed is emitted.
Confirm(p) ==
    LET pr == procs[p]
        pr2 == [pr EXCEPT !.ev = emit_event(@, "delivery_completed", pr.canonical_id)]
    IN  /\ pr.pc = "confirm"
        /\ heap' = [heap EXCEPT ![pr.order].delivery_confirmed_at = pr.n]
        /\ Return(p, "applied", pr2)
        /\ Remember(p, "applied", pr2)
        /\ UNCHANGED <<ORDERS, keyOrder, sheet, clock, conc, fsm, store, syn>>

----------------------------------------------------------------------------
(* courier_status_webhook, POST /api/v1/courier/status *)

\* The handler's first statement reads payload.proof_image_file_id, which
\* CourierStatusWebhook (order_id, status, meta) does not declare: the
\* attribute access raises before the order is looked up and before the
\* status is used.
courier_status_webhook(p) ==
    \E oid \in CallerIds(sheet, conc) :
        /\ Admit(p)
        /\ Tick
        /\ res' = [res EXCEPT ![p] =
                [NoResult EXCEPT !.n = clock, !.entry = "webhook",
                                 !.order_id = oid, !.order = LiveLookup(oid),
                                 !.out = "error"]]
        /\ UNCHANGED <<ORDERS, keyOrder, heap, sheet, procs, lastOut, conc, fsm, store, syn>>

----------------------------------------------------------------------------
(* set_pickup_eta, POST /api/v1/orders/{order_id}/pickup_eta *)

\* Building courier_payload reads payload.order_id, a field PickupETARequest
\* does not have: the handler raises there, after the order was written.
PickupPayloadOutcome_built == "built"

PickupPayloadOutcome == "raises"

CourierReplies == {"y1", "raise"}

set_pickup_eta ==
    \E oid \in CallerIds(sheet, conc), reply \in CourierReplies :
        LET o == ORDERS[oid]
            eta == [heap EXCEPT ![o].pickup_eta_at = "eta",
                                ![o].pickup_eta_source = "preset",
                                ![o].courier_decision = "requested",
                                ![o].status = DELIVERY_NEW]
            out == IF o = 0 THEN "not_found"
                   ELSE IF ~Falsy(heap[o].pickup_eta_at) THEN "already_set"
                   ELSE IF PickupPayloadOutcome = "raises" THEN "error"
                   ELSE IF reply = "raise" THEN "courier_unavailable"
                   ELSE "ok"
        IN  /\ \A p \in Procs : procs[p].pc = "idle"
            /\ res' = [res EXCEPT ![1] =
                    [NoResult EXCEPT !.entry = "pickup_eta", !.order_id = oid,
                                     !.order = o, !.out = out]]
            /\ IF o = 0 \/ ~Falsy(heap[o].pickup_eta_at)
               THEN UNCHANGED <<heap, lastOut>>
               ELSE /\ heap' = IF PickupPayloadOutcome = "built" /\ reply # "raise"
                                THEN [eta EXCEPT ![o].delivery_provider = "courier",
                                                 ![o].delivery_order_id = reply]
                                ELSE eta
                    /\ lastOut' = [lastOut EXCEPT ![o].out = None, ![o].mapped = None]
            /\ UNCHANGED <<ORDERS, keyOrder, sheet, procs, clock, conc, fsm, store, syn>>

----------------------------------------------------------------------------

Next ==
    \/ create_order
    \/ \E p \in Procs :
        \/ Begin(p)
        \/ Locate(p)
        \/ Restore(p)
        \/ Guards(p)
        \/ RejSync(p)
        \/ Apply(p)
        \/ Fanout(p)
        \/ Sync(p)
        \/ Finish(p)
        \/ Confirm(p)
        \/ courier_status_webhook(p)

Spec == Init /\ [][Next]_vars

\* The same program with overlapping handlers.
InitConc ==
    /\ InitCommon
    /\ sheet \in SheetConfigs
    /\ conc = TRUE
    /\ store = << >>
    /\ fsm = [current |-> None, incoming |-> None, applied |-> FALSE,
              valid |-> FALSE, final |-> FALSE]

SpecConc == InitConc /\ [][Next]_vars

\* The same program with the kitchen's pickup-ETA call among the operations,
\* on an order made by create_order and on an order the sheet holds as
\* delivered.
InitOps ==
    /\ Init
    /\ sheet # << >> => sheet[1].t = DELIVERED

NextOps == Next \/ set_pickup_eta

SpecOps == InitOps /\ [][NextOps]_vars

----------------------------------------------------------------------------
(* create_webapp_order, POST /api/v1/webapp/orders *)

\* kitchen_context._REGISTRY after load_registry: kitchen_1 .. kitchen_5.
_REGISTRY == {1, 2, 3, 4, 5}

\* Requests to create_webapp_order: kitchen_id (99 is not registered),
\* whether the upload id starts with "upload_", and what the append to the
\* orders sheet does.
WebAppOrderCreateRequests ==
    { [kitchen_id |-> 1, upload_ok |-> TRUE, append |-> "ok"],
      [kitchen_id |-> 1, upload_ok |-> TRUE, append |-> "raise"],
      [kitchen_id |-> 1, upload_ok |-> FALSE, append |-> "ok"],
      [kitchen_id |-> 99, upload_ok |-> TRUE, append |-> "ok"] }

\* The minimal record create_webapp_order registers.
WebAppOrder(oid, kid) ==
    [NoOrder EXCEPT !.order_id = oid, !.source = "webapp", !.kitchen_id = kid,
                    !.status = "created", !.delivery_state = "delivery_new"]

\* The row it appends to the orders sheet (A order_id, B created_at,
\* T delivery_state; the courier columns empty).
WebAppRow(oid) ==
    [SheetRow(oid, "", "") EXCEPT !.b = "created_at", !.t = "delivery_new"]

\* The answer to an order id the table holds: a plain dict with status,
\* order_id and already_exists, and no external delivery reference.
create_webapp_order_already_exists(oid) ==
    OrderCreateResponse("ok", None, TRUE, FALSE)

create_webapp_order ==
    \E rq \in IF sheet = << >> THEN WebAppOrderCreateRequests ELSE {} :
        LET oid == "o1"
            answer(out, o, response) == Created("create_webapp_order", oid, o,
                                              [response EXCEPT !.status = out])
            none == OrderCreateResponse(None, None, FALSE, FALSE)
        IN  /\ \A p \in Procs : procs[p].pc = "idle"
            /\ IF rq.kitchen_id \notin _REGISTRY
               THEN /\ answer("kitchen_not_found", ORDERS[oid], none)
                    /\ UNCHANGED <<ORDERS, keyOrder, heap, lastOut, store>>
               ELSE IF ORDERS[oid] # 0
               THEN /\ Created("create_webapp_order", oid, ORDERS[oid],
                               create_webapp_order_already_exists(oid))
                    /\ UNCHANGED <<ORDERS, keyOrder, heap, lastOut, store>>
               ELSE IF ~rq.upload_ok
               THEN /\ answer("invalid_payment_proof", 0, none)
                    /\ UNCHANGED <<ORDERS, keyOrder, heap, lastOut, store>>
               ELSE IF rq.append = "raise"
               THEN /\ answer("error", 0, none)
                    /\ UNCHANGED <<ORDERS, keyOrder, heap, lastOut, store>>
               ELSE /\ store' = Append(store, WebAppRow(oid))
                    /\ Insert(oid, WebAppOrder(oid, rq.kitchen_id))
                    /\ answer("ok", Len(heap) + 1, none)
            /\ UNCHANGED <<sheet, procs, clock, conc, fsm, syn>>

\* The program with both creation endpoints among the operations, on an
\* order the sheet does not hold.
InitCreate ==
    /\ Init
    /\ sheet = << >>

NextCreate == Next \/ create_webapp_order

SpecCreate == InitCreate /\ [][NextCreate]_vars

----------------------------------------------------------------------------
(* sync_delivery_status_to_kitchen called on the orders sheet *)

SyncCall ==
    \E call \in SyncCalls :
        LET r == sync_delivery_status_to_kitchen(store, call.order_id, call.args,
                                                 ToString(clock), call.svc)
        IN  /\ Tick
            /\ store' = r.rows
            /\ syn' = [called |-> TRUE, order_id |-> call.order_id,
                       args |-> call.args, svc |-> call.svc, path |-> r.path,
                       target_row |-> r.target_row, result |-> r.result]
            /\ UNCHANGED <<ORDERS, keyOrder, heap, sheet, procs, res, lastOut, conc, fsm>>

InitSync ==
    /\ InitCommon
    /\ sheet = << >>
    /\ conc = FALSE
    /\ fsm = [current |-> None, incoming |-> None, applied |-> FALSE,
              valid |-> FALSE, final |-> FALSE]
    /\ store \in StoreConfigs

NextSync == SyncCall

SpecSync == InitSync /\ [][NextSync]_vars

----------------------------------------------------------------------------
(* Claims about the FSM predicates (checked under SpecFsm) *)

AllowedTable ==
    { <<DELIVERY_NEW, DELIVERY_NEW>>, <<DELIVERY_NEW, DELIVERY_IN_PROGRESS>>,
      <<DELIVERY_NEW, DELIVERED>>, <<DELIVERY_NEW, CANCELLED>>,
      <<DELIVERY_IN_PROGRESS, DELIVERY_IN_PROGRESS>>,
      <<DELIVERY_IN_PROGRESS, DELIVERED>>, <<DELIVERY_IN_PROGRESS, CANCELLED>>,
      <<DELIVERED, DELIVERED>>, <<CANCELLED, CANCELLED>> }

\* C1: for every pair (current, incoming) over the four canonical statuses,
\* null and non-canonical values, is_valid_transition is true exactly when
\* the pair is in the allowed table.
C1_TransitionTable ==
    fsm.applied => (fsm.valid <=> <<fsm.current, fsm.incoming>> \in AllowedTable)

\* A regression pair has been evaluated and refused.
C1_Witness ==
    /\ fsm.applied
    /\ fsm.current = DELIVERY_IN_PROGRESS
    /\ fsm.incoming = DELIVERY_NEW
    /\ ~fsm.valid

----------------------------------------------------------------------------
(* Claims about status callbacks handled one at a time (checked under Spec) *)

\* The last finished call of the handler slot that serves calls one at a time.
R == res[1]

Done == R.entry = "status" /\ R.out # None
Located == R.order # 0

\* The vendor vocabulary and its normal forms, as the specification lists them.
KnownVendorStatuses ==
    {"created", "courier_assigned", "courier_departed", "order_on_hands",
     "delivered", "cancelled"}

ExpectedNorm(raw) ==
    CASE raw = "created" -> DELIVERY_NEW
      [] raw \in {"courier_assigned", "courier_departed", "order_on_hands"} ->
            DELIVERY_IN_PROGRESS
      [] raw = "delivered" -> DELIVERED
      [] raw = "cancelled" -> CANCELLED
      [] OTHER -> None

C2_Outcome ==
    (/\ Done /\ Located
     /\ R.pre.status \in {DELIVERED, CANCELLED}
     /\ R.status \in KnownVendorStatuses
     /\ ExpectedNorm(R.status) # R.pre.status)
    => R.out \in {"final", "rejected"}

C2_Step ==
    (\E p \in Procs : procs[p].pc # "idle") =>
        \A o \in DOMAIN heap :
            heap[o].status \in {DELIVERED, CANCELLED} =>
                heap'[o].status = heap[o].status

\* C2: terminal immutability.  Once an order's status is DELIVERED or
\* CANCELLED, a callback with a different normalized status returns final or
\* rejected, and no step of any later callback changes the status.
C2_TerminalImmutability == [](C2_Outcome) /\ [][C2_Step]_vars

\* A delivered order has answered a 'cancelled' callback with final.
C2_Witness ==
    /\ Done /\ Located
    /\ R.pre.status = DELIVERED
    /\ R.status = "cancelled"
    /\ R.out = "final"
    /\ heap[R.order].status = DELIVERED

\* C3: idempotence.  When the previous callback of an order was applied and
\* the next one carries the same normalized status, the next one returns
\* idempotent, leaves the status as it was and emits no event, makes no
\* sync call and dispatches no notification.
C3_Idempotence ==
    (/\ Done /\ Located
     /\ R.prevOut = "applied"
     /\ R.status \in KnownVendorStatuses
     /\ ExpectedNorm(R.status) = R.prevMapped)
    => (/\ R.out = "idempotent"
        /\ heap[R.order].status = R.pre.status
        /\ R.ev = << >> /\ R.sy = << >> /\ R.nt = << >>)

\* An applied callback has been followed by a repeat that returned idempotent.
C3_Witness ==
    /\ Done /\ Located
    /\ R.prevOut = "applied"
    /\ ExpectedNorm(R.status) = R.prevMapped
    /\ R.out = "idempotent"

C4_WrittenOnArrival ==
    (/\ Done /\ Located
     /\ R.pre.status # DELIVERED
     /\ heap[R.order].status = DELIVERED)
    => heap[R.order].delivery_confirmed_at # 0

C4_WriteOnce ==
    \A o \in DOMAIN heap :
        heap[o].delivery_confirmed_at # 0 =>
            heap'[o].delivery_confirmed_at = heap[o].delivery_confirmed_at

\* C4: delivery_confirmed_at is set exactly once per order: a callback that
\* brings the order to DELIVERED leaves it written, and no later step
\* changes its value.
C4_ConfirmedExactlyOnce == [](C4_WrittenOnArrival) /\ [][C4_WriteOnce]_vars

\* C5: a callback whose vendor status is not in the mapping table, on an
\* order that passes the guards, returns unknown_status, records
\* courier_last_error, emits exactly the status_unknown event and leaves
\* the status unchanged; it never ends in an error.
C5_UnknownStatusSafe ==
    (/\ Done /\ Located
     /\ GuardOutcome(R.pre) = "pass"
     /\ R.status \notin KnownVendorStatuses)
    => (/\ R.out = "unknown_status"
        /\ heap[R.order].courier_last_error = "unknown_courier_status"
        /\ R.ev = << [event |-> "delivery_status_unknown",
                      order_id |-> heap[R.order].order_id] >>
        /\ heap[R.order].status = R.pre.status
        /\ R.sy = << >> /\ R.nt = << >>)

\* An unknown vendor status has been answered on an order at NEW.
C5_Witness ==
    /\ Done /\ Located
    /\ R.status = "weird_status"
    /\ R.pre.status = DELIVERY_NEW
    /\ R.out = "unknown_status"
    /\ heap[R.order].courier_last_error = "unknown_courier_status"

\* C6: first-update exemption.  An order whose status is the null
\* placeholder (None or 'pending') accepts its first courier update for
\* every mapped vendor status: the outcome is applied and the status
\* becomes the normalized value.
C6_FirstUpdateAccepted ==
    (/\ Done /\ Located
     /\ GuardOutcome(R.pre) = "pass"
     /\ R.pre.status \in {None, "pending"}
     /\ R.pre.courier_updated_at = 0
     /\ R.status \in KnownVendorStatuses)
    => (/\ R.out = "applied"
        /\ heap[R.order].status = ExpectedNorm(R.status))

FanoutCalls(nt) == Cardinality({i \in DOMAIN nt : nt[i].to = "fanout"})

BothDeparted ==
    /\ \A p \in Procs : /\ res[p].entry = "status" /\ res[p].out # None
                        /\ res[p].status = "courier_departed"
                        /\ res[p].order # 0
                        /\ GuardOutcome(res[p].pre) = "pass"
    /\ res[1].order = res[2].order
    /\ \E p \in Procs : res[p].pre.status = DELIVERY_NEW
    /\ \A p \in Procs : procs[p].pc = "idle"

\* C7: Scenario D.  When two callbacks carrying 'courier_departed' for the
\* same order at NEW have both returned, and no collaborator failed, exactly
\* one returned applied and the other idempotent, and together they
\* dispatched one notification fan-out and made at most one sync call.
C7_ScenarioD ==
    (conc /\ BothDeparted
       /\ \A p \in Procs : \A i \in DOMAIN res[p].sy : res[p].sy[i].result = "returned")
    => (/\ {res[1].out, res[2].out} = {"applied", "idempotent"}
        /\ FanoutCalls(res[1].nt) + FanoutCalls(res[2].nt) = 1
        /\ Len(res[1].sy) + Len(res[2].sy) <= 1)

\* C8: a status callback for a located order returns an outcome and never
\* propagates an exception, whatever the collaborators do.
C8_NoErrorForLocatedOrder ==
    (Done /\ Located) => R.out # "error"

HappyPathEntered == \E i \in DOMAIN R.nt : R.nt[i].to = "fanout"
NotifyFailed == \E i \in DOMAIN R.nt : R.nt[i].sent = "fails"

\* C9: side-effect isolation.  On the happy path a failing notification or
\* a failing sync leaves the outcome applied, and a notification failure is
\* recorded in the order's fan-out diagnostic.
C9_SideEffectIsolation ==
    (Done /\ Located /\ HappyPathEntered)
    => (/\ R.out = "applied"
        /\ (NotifyFailed => heap[R.order].fanout_last_error # None))

Ids(o) == {heap[o].order_id, heap[o].delivery_order_id} \ {None}

\* C10: the locator.  Every order dict is in the live set under its
\* canonical id, no two dicts stand for the same order (so an order is
\* restored at most once), and a call that names a live order by its
\* canonical or its external id is served with that very dict and falls
\* back to the sheet only when no live dict carries the id.
C10_Locator ==
    /\ \A o \in DOMAIN heap : ORDERS[heap[o].order_id] = o
    /\ \A o1, o2 \in DOMAIN heap : o1 # o2 => Ids(o1) \cap Ids(o2) = {}
    /\ (Done /\ R.out # "not_found") => (Located /\ R.order_id \in Ids(R.order))
    /\ procs[1].pc = "restore" =>
           \A o \in DOMAIN heap : procs[1].order_id \notin Ids(o)

\* A restored order that already took a callback has been looked up again
\* by its canonical id and by its external id, and is the only dict.
C10_Witness ==
    /\ sheet # << >>
    /\ Done /\ Located
    /\ R.pre.courier_updated_at # 0
    /\ R.order_id = "x2"
    /\ heap[R.order].order_id = "o2"
    /\ Len(heap) = 1

----------------------------------------------------------------------------
(* Scenarios and frame conditions of status callbacks *)

Healthy == \A i \in DOMAIN R.sy : R.sy[i].result = "returned"

NullStart == sheet # << >> /\ sheet[1].t = None

ScenarioB_Created ==
    (Done /\ Located /\ R.pre.courier_updated_at = 0 /\ R.status = "created")
    => (R.out = "applied" /\ heap[R.order].status = DELIVERY_NEW)

ScenarioB_Assigned ==
    (/\ Done /\ Located /\ R.status = "courier_assigned"
     /\ R.pre.status = DELIVERY_NEW /\ R.prevOut = "applied")
    => (R.out = "applied" /\ heap[R.order].status = DELIVERY_IN_PROGRESS)

ScenarioB_Departed ==
    (/\ Done /\ Located /\ R.status = "courier_departed"
     /\ R.pre.status = DELIVERY_IN_PROGRESS /\ R.prevOut = "applied")
    => (R.out = "idempotent" /\ R.ev = << >> /\ R.sy = << >> /\ R.nt = << >>)

ScenarioB_Delivered ==
    (/\ Done /\ Located /\ R.status = "delivered"
     /\ R.pre.status = DELIVERY_IN_PROGRESS)
    => (/\ R.out = "applied"
        /\ heap[R.order].status = DELIVERED
        /\ heap[R.order].delivery_confirmed_at # 0
        /\ \E i \in DOMAIN R.ev : R.ev[i].event = "delivery_completed")

\* C11: Scenario B.  For an order that starts with status null and with
\* healthy collaborators, 'created' is applied as the first update (NEW),
\* 'courier_assigned' is applied (IN_PROGRESS), 'courier_departed' is
\* idempotent, and 'delivered' is applied with the completed event emitted
\* and the confirmation timestamp set.
C11_ScenarioB ==
    (NullStart /\ Healthy)
    => (/\ ScenarioB_Created /\ ScenarioB_Assigned
        /\ ScenarioB_Departed /\ ScenarioB_Delivered)

AssignedAfterDelivered ==
    /\ Done /\ Located
    /\ R.pre.status = DELIVERED
    /\ R.status = "courier_assigned"

C13_ScenarioA ==
    (Done /\ Located /\ R.pre.courier_decision = "not_requested")
    => R.out = "ignored_courier_not_requested"

\* An unknown status carrying eta and proof has been ignored for such an order.
C13_Witness ==
    /\ Done /\ Located
    /\ R.pre.courier_decision = "not_requested"
    /\ R.status = "weird_status"
    /\ R.eta_minutes # None /\ R.proof_image_file_id # None
    /\ R.out = "ignored_courier_not_requested"

IgnoredOutcomes ==
    {"ignored_courier_not_requested", "ignored_not_kitchen_order",
     "ignored_not_managed_by_courier"}

\* C14: a callback that ends in an ignored outcome leaves every field of the
\* order as it was before the call and produces no event, no sync call and
\* no notification.
C14_IgnoredNoMutation ==
    (Done /\ Located /\ R.out \in IgnoredOutcomes)
    => (/\ heap[R.order] = R.pre
        /\ R.ev = << >> /\ R.sy = << >> /\ R.nt = << >>)

OutcomeVocabulary ==
    IgnoredOutcomes \cup {"unknown_status", "idempotent", "final", "rejected", "applied"}

\* C15: the webhook entry point is equivalent to the status entry point: a
\* webhook call that names a live order by either id ends in an outcome of
\* the pipeline's vocabulary, the one the status entry point gives (for an
\* order that fails a guard, that guard's ignored outcome), and it ends in
\* an error only when the order is not found.
C15_EntryPointsEquivalent ==
    (R.entry = "webhook" /\ R.order # 0)
    => (/\ R.out \in OutcomeVocabulary
        /\ GuardOutcome(heap[R.order]) # "pass" => R.out = GuardOutcome(heap[R.order]))

----------------------------------------------------------------------------
(* Invariants of the order table under all operations (SpecOps) *)

CanonicalStatuses == {DELIVERY_NEW, DELIVERY_IN_PROGRESS, DELIVERED, CANCELLED}

StatusAdvances ==
    \A o \in DOMAIN heap :
        (heap[o].status \in CanonicalStatuses /\ heap'[o].status # heap[o].status)
        => <<heap[o].status, heap'[o].status>> \in AllowedTable

\* C16: no silent regression.  Every step of every operation that changes an
\* order's status from a canonical value makes an allowed FSM transition:
\* nothing leaves DELIVERED or CANCELLED or goes from IN_PROGRESS back to NEW.
C16_NoSilentRegression == [][StatusAdvances]_vars

KeyEqualsId ==
    \A k \in OrderIds : ORDERS[k] # 0 => heap[ORDERS[k]].order_id = k

IdentityStable ==
    /\ \A k \in OrderIds : ORDERS[k] # 0 => ORDERS'[k] = ORDERS[k]
    /\ \A o \in DOMAIN heap :
        /\ heap'[o].order_id = heap[o].order_id
        /\ ~Falsy(heap[o].delivery_order_id) =>
               heap'[o].delivery_order_id = heap[o].delivery_order_id

\* C17: identity fields are stable.  An order is always keyed in the live set
\* by its own order_id, no step of any operation reassigns an order's
\* order_id or its key, and a non-empty delivery_order_id is never changed.
C17_IdentityStable == [](KeyEqualsId) /\ [][IdentityStable]_vars

\* A restored order with an external id went through set_pickup_eta and
\* through status callbacks and still carries both ids.
C17_Witness ==
    /\ Done /\ Located
    /\ R.pre.pickup_eta_source = "preset"
    /\ R.pre.courier_updated_at # 0
    /\ heap[R.order].order_id = "o2"
    /\ heap[R.order].delivery_order_id = "x2"
    /\ ORDERS["o2"] = R.order

----------------------------------------------------------------------------
(* is_final (SpecFsm) *)

\* C18: is_final(status) is true exactly for DELIVERED and CANCELLED; it is
\* false for NEW, IN_PROGRESS, null, the empty string and any other value.
C18_IsFinal ==
    fsm.applied => (fsm.final <=> fsm.current \in {"delivered", "cancelled"})

\* is_final has answered true on CANCELLED.
C18_Witness == fsm.applied /\ fsm.current = CANCELLED /\ fsm.final

----------------------------------------------------------------------------
(* When a status callback reaches the durable sync (Spec) *)

FirstCourierCallback ==
    /\ Done /\ Located
    /\ GuardOutcome(R.pre) = "pass"
    /\ R.status \in KnownVendorStatuses
    /\ R.pre.courier_updated_at = 0

\* C19: the first courier callback (of a mapped status, past the guards) for
\* an order that carries an external delivery id makes exactly one sync
\* call, carrying the raw vendor status and its normalized state, also when
\* the normalized state equals the order's current status.
C19_FirstCallbackSyncs ==
    (FirstCourierCallback /\ ~Falsy(R.pre.delivery_order_id))
    => (/\ Len(R.sy) = 1
        /\ R.sy[1].courier_status_raw = R.status
        /\ R.sy[1].delivery_state = ExpectedNorm(R.status))

\* C20: a status callback (of a mapped status, past the guards) for an order
\* that has no external delivery id returns a success response and makes no
\* sync call.
C20_NoExternalIdNoSync ==
    (/\ Done /\ Located
     /\ GuardOutcome(R.pre) = "pass"
     /\ R.status \in KnownVendorStatuses
     /\ Falsy(R.pre.delivery_order_id))
    => (R.out \in OutcomeVocabulary /\ R.sy = << >>)

----------------------------------------------------------------------------
(* The durable sync on the orders sheet (SpecSync) *)

\* C21: the durable sync never propagates a failure.  Whatever the order id
\* and whatever the sheets service does (the read fails, no row holds the
\* order, the sheet has fewer than two rows, the write fails), the call
\* returns normally, and a call that finds no row writes nothing.
C21_SyncNeverRaises ==
    /\ [](syn.called => syn.result = "returned")
    /\ [][syn'.path = "not_found" => store' = store]_vars

\* A call for an id no row holds has returned, the sheet as it was.
C21_Witness ==
    /\ syn.called
    /\ syn.order_id = "zz"
    /\ syn.path = "not_found"
    /\ syn.result = "returned"
    /\ Len(store) = 3

\* Trimming as the contract words it: blanks on both sides removed, a
\* missing id read as the empty string.
Trimmed(s) ==
    CASE s = None -> ""
      [] s \in {" a", "a ", " a "} -> "a"
      [] s = " " -> ""
      [] OTHER -> s

OrderRows(rows, order_id) ==
    {i \in 2..Len(rows) : Trimmed(rows[i].a) = Trimmed(order_id)}

C22_Step ==
    LET changed == {i \in DOMAIN store : store'[i] # store[i]}
        matching == OrderRows(store, syn'.order_id)
    IN  /\ DOMAIN store' = DOMAIN store
        /\ Cardinality(changed) <= 1
        /\ \A i \in changed : /\ i \in matching
                              /\ store'[i].a = store[i].a
                              /\ store'[i].b = store[i].b
        /\ (syn'.svc = "ok" /\ matching # {}) =>
               \E i \in matching : /\ store'[i].t = syn'.args.delivery_state
                                   /\ store'[i].u = syn'.args.courier_status_raw

\* C22: a durable sync call changes only delivery cells (T, U, V, X, Y, Z,
\* AA), and only of one row, whose first cell equals the order id once both
\* are trimmed of surrounding blanks; it does write that row's state and raw
\* status when the service works; every other row and every other cell is
\* left as it was.
C22_SyncFrame == [][C22_Step]_vars

\* A call with a padded id has written the row whose first cell is padded
\* differently, next to a row that kept its cells.
C22_Witness ==
    /\ syn.called /\ syn.path = "written"
    /\ syn.order_id = " a "
    /\ store[syn.target_row].a = " a"
    /\ store[syn.target_row].t = syn.args.delivery_state
    /\ store[syn.target_row].b = "legacy"
    /\ store[2] = SheetRow("", "", "")

C23_KeepsNonEmpty ==
    \A i \in DOMAIN store :
        /\ store[i].z # "" => store'[i].z = store[i].z
        /\ store[i].aa # "" => store'[i].aa = store[i].aa

C23_KeepsNonBlank ==
    \A i \in DOMAIN store :
        /\ Trimmed(store[i].z) # "" => store'[i].z = store[i].z
        /\ Trimmed(store[i].aa) # "" => store'[i].aa = store[i].aa

----------------------------------------------------------------------------
(* The guards of the status callback (SpecOps) *)

\* C24: guard precedence.  The guards are tested in the order
\* courier_decision, source, delivery_provider, and the first that matches
\* decides: an order whose decision is not_requested yields
\* ignored(courier_not_requested) whatever its source; an order with the
\* courier requested whose source is not the kitchen yields
\* ignored(not_kitchen_order) whatever its delivery_provider and whatever the
\* incoming status; ignored(not_managed_by_courier) is left for kitchen
\* orders with the courier requested.
C24_GuardPrecedence ==
    (Done /\ Located)
    => (/\ R.pre.courier_decision = "not_requested"
           => R.out = "ignored_courier_not_requested"
        /\ (R.pre.courier_decision # "not_requested" /\ R.pre.source # "kitchen")
           => R.out = "ignored_not_kitchen_order"
        /\ R.out = "ignored_not_managed_by_courier"
           => (R.pre.courier_decision # "not_requested" /\ R.pre.source = "kitchen"))

\* An order that is not the kitchen's, with the courier requested and no
\* delivery provider, has answered 'delivered'.
C24_Witness ==
    /\ Done /\ Located
    /\ R.pre.courier_decision = "requested"
    /\ R.pre.source = "webapp"
    /\ R.pre.delivery_provider = None
    /\ R.status = "delivered"
    /\ R.out = "ignored_not_kitchen_order"

\* C25: provider guard and recovery path.  A callback for a kitchen order
\* with the courier requested yields ignored(not_managed_by_courier) exactly
\* when delivery_provider is not the courier and no dispatch failure is
\* recorded on the order; when a dispatch failure is recorded the callback
\* is not ignored and goes on through the pipeline.
C25_ProviderGuard ==
    (/\ Done /\ Located
     /\ R.pre.source = "kitchen"
     /\ R.pre.courier_decision # "not_requested")
    => (/\ R.out = "ignored_not_managed_by_courier"
           <=> (R.pre.delivery_provider # "courier" /\ ~R.pre.courier_failed)
        /\ R.pre.courier_failed => R.out \notin IgnoredOutcomes)

\* A kitchen order whose courier was requested afterwards, and so has no
\* provider, has been ignored by the provider guard.
C25_Witness ==
    /\ Done /\ Located
    /\ R.pre.source = "kitchen"
    /\ R.pre.courier_decision = "requested"
    /\ R.pre.delivery_provider = None
    /\ ~R.pre.courier_failed
    /\ R.out = "ignored_not_managed_by_courier"

----------------------------------------------------------------------------
(* The branches of the status callback (Spec) *)

PastGuards == Done /\ Located /\ GuardOutcome(R.pre) = "pass"

\* C26: every callback that passes the guards leaves the raw vendor status
\* and the time of the update recorded on the order, whatever branch it then
\* takes (unknown, idempotent, final, rejected or applied) and however the
\* branch ends.
C26_RawStatusRecorded ==
    PastGuards
    => (/\ heap[R.order].courier_status_detail = R.status
        /\ heap[R.order].courier_updated_at = R.n)

\* The first callback of a delivered order, 'cancelled', took the final
\* branch and is recorded.
C26_Witness ==
    /\ PastGuards
    /\ R.pre.courier_updated_at = 0
    /\ R.pre.courier_status_detail = None
    /\ R.status = "cancelled"
    /\ R.out = "final"
    /\ heap[R.order].courier_status_detail = "cancelled"
    /\ heap[R.order].courier_updated_at = R.n

Event(type) == [event |-> type, order_id |-> heap[R.order].order_id]

TerminalOther ==
    /\ PastGuards
    /\ R.pre.status \in {DELIVERED, CANCELLED}
    /\ R.status \in KnownVendorStatuses
    /\ ExpectedNorm(R.status) # R.pre.status

\* C27: finality branch.  A callback whose mapped status differs from the
\* order's terminal status emits the status_ignored_final event, makes one
\* sync call for the attempted target, returns final and leaves the status
\* as it was.
C27_FinalityBranch ==
    TerminalOther
    => (/\ R.out = "final"
        /\ R.ev = << Event("delivery_status_ignored_final") >>
        /\ Len(R.sy) = 1
        /\ R.sy[1].delivery_state = ExpectedNorm(R.status)
        /\ heap[R.order].status = R.pre.status)

InvalidFromNonTerminal ==
    /\ PastGuards
    /\ R.pre.status \notin {DELIVERED, CANCELLED}
    /\ R.status \in KnownVendorStatuses
    /\ <<R.pre.status, ExpectedNorm(R.status)>> \notin AllowedTable

\* C28: rejection branch.  A callback whose mapped status is not an allowed
\* transition from the order's non-terminal status records last_error, emits
\* the status_rejected event, makes one sync call for the rejected target,
\* returns rejected and leaves the status as it was.
C28_RejectionBranch ==
    InvalidFromNonTerminal
    => (/\ heap[R.order].courier_last_error = "invalid_transition"
        /\ R.ev = << Event("delivery_status_rejected") >>
        /\ Len(R.sy) = 1
        /\ R.sy[1].delivery_state = ExpectedNorm(R.status)
        /\ R.out = "rejected"
        /\ heap[R.order].status = R.pre.status)

Count(seq, Test(_)) == Cardinality({i \in DOMAIN seq : Test(seq[i])})

IsFanout(n) == n.to = "fanout"
IsChanged(e) == e.event = "delivery_status_changed"
IsCompleted(e) == e.event = "delivery_completed"
IsRejected(e) == e.event = "delivery_status_rejected"

\* C29: every applied outcome comes with exactly one notification fan-out,
\* exactly one sync call and exactly one status_changed event for the order.
C29_AppliedEffects ==
    (Done /\ Located /\ R.out = "applied")
    => (/\ Count(R.nt, IsFanout) = 1
        /\ Len(R.sy) = 1
        /\ Count(R.ev, IsChanged) = 1)

\* C30: the events of one order appear in causal order.  Over any sequence
\* of callbacks, a callback emits completed at most once, as its last event,
\* right after its own status_changed event and only when it has moved the
\* order to DELIVERED; and once a completed event has been emitted for an
\* order, no later callback emits completed or status_changed for it.
C30_EventOrder ==
    (Done /\ Located)
    => (/\ Count(R.ev, IsCompleted) <= 1
        /\ \A i \in DOMAIN R.ev :
              R.ev[i] = Event("delivery_completed")
              => (/\ i = Len(R.ev)
                  /\ i > 1 /\ R.ev[i - 1] = Event("delivery_status_changed")
                  /\ R.pre.status # DELIVERED
                  /\ heap[R.order].status = DELIVERED)
        /\ \A i \in DOMAIN R.ev : IsCompleted(R.ev[i]) => R.ev[i] = Event("delivery_completed")
        /\ R.prevCompleted
           => \A i \in DOMAIN R.ev : ~IsCompleted(R.ev[i]) /\ ~IsChanged(R.ev[i]))

\* After the callback that completed an order, 'cancelled' and other
\* callbacks have come for it, and the last one emitted no status_changed.
C30_Witness ==
    /\ Done /\ Located
    /\ R.prevCompleted
    /\ R.prevOut = "final"
    /\ R.status = "courier_departed"
    /\ R.ev = << Event("delivery_status_ignored_final") >>
    /\ heap[R.order].status = DELIVERED

----------------------------------------------------------------------------
(* Notification fan-out, payload merge and the not-found answer (Spec) *)

Applied == Done /\ Located /\ R.out = "applied"

IsKitchen(n) == n.to = "kitchen"
IsClient(n) == n.to = "client"

CustomerSubset ==
    \/ heap[R.order].status \in {DELIVERY_IN_PROGRESS, DELIVERED}
    \/ R.status = "order_on_hands"

C31_CustomerOnlySubset ==
    Applied
    => (/\ Count(R.nt, IsClient) > 0 => CustomerSubset
        /\ heap[R.order].status \in {DELIVERY_NEW, CANCELLED} /\ R.status # "order_on_hands"
           => Count(R.nt, IsClient) = 0
        /\ (CustomerSubset /\ R.pre.client_tg_id) => Count(R.nt, IsClient) > 0)

\* C31: fan-out recipients.  On every applied update the kitchen is sent a
\* status line; the customer is sent a message only when the new status is
\* IN_PROGRESS or DELIVERED or the raw status is order_on_hands, and nothing
\* for an update to NEW or CANCELLED.
C31_FanoutRecipients ==
    /\ Applied => (\E i \in DOMAIN R.nt :
                      IsKitchen(R.nt[i]) /\ R.nt[i].text = heap[R.order].status)
    /\ C31_CustomerOnlySubset

KitchenSendFailed == \E i \in DOMAIN R.nt : IsKitchen(R.nt[i]) /\ R.nt[i].sent = "fails"

\* C32: fan-out failure isolation.  On the happy path a failing kitchen send
\* does not keep the customer's message from being sent, the fan-out never
\* raises (the handler goes on to the sync decision and the fan-out is
\* counted once), and a notification failure is recorded in the order's
\* fan-out diagnostic.
C32_FanoutIsolation ==
    (Done /\ Located /\ HappyPathEntered)
    => (/\ (KitchenSendFailed /\ CustomerSubset /\ R.pre.client_tg_id)
           => Count(R.nt, IsClient) > 0
        /\ Count(R.nt, IsFanout) = 1
        /\ NotifyFailed => heap[R.order].fanout_last_error # None)

\* C33: the proof reference and the eta of a callback are merged into the
\* order only on the happy path: a callback that ends as unknown_status,
\* idempotent, final or rejected leaves the order's proof reference and eta
\* as they were.
C33_MergeOnlyWhenApplied ==
    (Done /\ Located /\ R.out \in {"unknown_status", "idempotent", "final", "rejected"})
    => (/\ heap[R.order].proof_image_file_id = R.pre.proof_image_file_id
        /\ heap[R.order].eta_minutes = R.pre.eta_minutes)

LiveMatch(id) == \E o \in DOMAIN heap : id \in Ids(o)
StoreMatch(id) == \E i \in DOMAIN sheet : sheet[i].c = id \/ sheet[i].w = id

C34_Answer ==
    Done => (/\ ~Located <=> R.out = "not_found"
             /\ R.out = "not_found" => (R.read = "fails" \/ ~StoreMatch(R.order_id))
             /\ (~Located /\ R.read = "ok") => ~StoreMatch(R.order_id))

C34_Step ==
    /\ (procs[1].pc = "locate" /\ LiveMatch(procs[1].order_id))
       => procs'[1].pc \in {"locate", "guards"}
    /\ procs[1].pc = "restore" => ~LiveMatch(procs[1].order_id)
    /\ (procs[1].pc = "restore" /\ procs'[1].pc # "restore")
       => \/ res'[1].out = "not_found"
          \/ procs'[1].pc = "guards" /\ StoreMatch(procs[1].order_id)

\* C34: a status callback ends in OrderNotFound exactly when its identifier
\* is no key of the live set, no live order's external id, and not found in
\* the durable store, where a store that fails during reconstruction counts
\* as not finding it: the answer is then OrderNotFound and no other error,
\* and an identifier that is live or stored in a working store is served.
C34_OrderNotFound == [](C34_Answer) /\ [][C34_Step]_vars

\* The store holds the order but failed when it was read: not found.
C34_Witness ==
    /\ Done /\ ~Located
    /\ R.out = "not_found"
    /\ R.read = "fails"
    /\ StoreMatch(R.order_id)
    /\ heap = << >>

----------------------------------------------------------------------------
(* Confirmation, the stored status and the first-update exemption (Spec) *)

BroughtToDelivered ==
    /\ Done /\ Located
    /\ R.pre.status # DELIVERED
    /\ heap[R.order].status = DELIVERED

\* C38: once a callback that changed the order's status to DELIVERED has
\* finished, with a normal return or with a failure in a notification or in
\* the sync, delivery_confirmed_at is set and a completed event has been
\* emitted for the order.
C38_DeliveredIsConfirmed ==
    BroughtToDelivered
    => (/\ heap[R.order].delivery_confirmed_at # 0
        /\ lastOut[R.order].completed)

\* C39 as stated: every sync call of a callback passes, as delivery_state,
\* the canonical status the order holds in memory, so that the durable store
\* never receives a status the FSM did not accept.
C39_SyncedStateIsStatus ==
    (Done /\ Located)
    => \A i \in DOMAIN R.sy : R.sy[i].delivery_state = heap[R.order].status

\* C39: every sync call of a callback passes the normalized incoming status
\* as delivery_state.  On the happy path that is the canonical status the
\* order holds in memory; on the rejected branch it is the rejected target,
\* which the FSM did not accept and which differs from the order's status.
C39_SyncedStateIsTarget ==
    (Done /\ Located)
    => \A i \in DOMAIN R.sy :
          /\ R.sy[i].delivery_state = R.mapped_status
          /\ HappyPathEntered => R.sy[i].delivery_state = heap[R.order].status
          /\ ~HappyPathEntered =>
                /\ Count(R.ev, IsRejected) = 1
                /\ R.sy[i].delivery_state # heap[R.order].status
                /\ ~is_valid_transition(heap[R.order].status, R.sy[i].delivery_state)

\* A 'created' callback on an order in progress was rejected and its sync
\* call carried the rejected target.
C39_Witness ==
    /\ Done /\ Located
    /\ R.out = "rejected"
    /\ Len(R.sy) = 1
    /\ R.sy[1].delivery_state = DELIVERY_NEW
    /\ heap[R.order].status = DELIVERY_IN_PROGRESS

\* The outcomes of a callback that passed the guards.
PostGuardOutcomes ==
    {"unknown_status", "idempotent", "final", "rejected", "applied", "error"}

\* The callback came after one that passed the guards for the same order,
\* and its normalized status is the canonical status the order held.
RepeatsCurrentStatus ==
    /\ Done /\ Located
    /\ R.prevOut \in PostGuardOutcomes
    /\ map_courier_status_to_kitchen(R.status) # None
    /\ map_courier_status_to_kitchen(R.status) = R.pre.status

\* C40: the first-update exemption is used by at most one callback per
\* order: after a callback has passed the guards for an order (one that
\* ended as unknown_status included), every later callback whose normalized
\* status equals the order's canonical status returns idempotent, with no
\* sync call, no event and no notification.
C40_ExemptionUsedOnce ==
    RepeatsCurrentStatus
    => (/\ R.out = "idempotent"
        /\ R.sy = << >>
        /\ R.ev = << >>
        /\ R.nt = << >>
        /\ heap[R.order].status = R.pre.status)

\* A 'created' callback on a new order whose only earlier callback ended as
\* unknown_status.
C40_Witness ==
    /\ RepeatsCurrentStatus
    /\ R.prevOut = "unknown_status"
    /\ R.pre.status = DELIVERY_NEW
    /\ R.out = "idempotent"

----------------------------------------------------------------------------
(* Overlapping callbacks (SpecConc) *)

OneRecordPerOrder ==
    \A o1, o2 \in DOMAIN heap : o1 # o2 => heap[o1].order_id # heap[o2].order_id

NoReinsertion ==
    \A k \in OrderIds : ORDERS[k] # 0 => ORDERS'[k] = ORDERS[k]

\* C35: reconstruction is race-free.  When two callbacks for the same
\* identifier, absent from the live set, overlap, in every interleaving one
\* record only is reconstructed for the order, and no key of the live set is
\* pointed to a second record, which would drop what a callback already
\* wrote to the first.
C35_ReconstructionRaceFree == [](OneRecordPerOrder) /\ [][NoReinsertion]_vars

BothDelivered ==
    /\ \A p \in Procs : /\ res[p].entry = "status" /\ res[p].out # None
                        /\ res[p].status = "delivered"
                        /\ res[p].order # 0
                        /\ res[p].pre.status \in {DELIVERY_NEW, DELIVERY_IN_PROGRESS}
                        /\ GuardOutcome(res[p].pre) = "pass"
                        /\ procs[p].pc = "idle"
    /\ res[1].order = res[2].order
    /\ \A p \in Procs : \A i \in DOMAIN res[p].sy : res[p].sy[i].result = "returned"

C36_WrittenOnce ==
    \A o \in DOMAIN heap :
        heap[o].delivery_confirmed_at # 0 =>
            heap'[o].delivery_confirmed_at = heap[o].delivery_confirmed_at

\* C36: when two 'delivered' callbacks for the same non-terminal order
\* overlap, in every interleaving delivery_confirmed_at is written once, the
\* first writer's value staying, and exactly one completed event is emitted.
C36_ConcurrentDelivered ==
    /\ [](BothDelivered
          => /\ heap[res[1].order].delivery_confirmed_at # 0
             /\ Count(res[1].ev, IsCompleted) + Count(res[2].ev, IsCompleted) = 1)
    /\ [][conc => C36_WrittenOnce]_vars

----------------------------------------------------------------------------
(* Repeated creation (SpecCreate) *)

\* A step of the creation endpoint `entry' on an order id the table holds.
CreateAgain(entry) ==
    /\ \A p \in Procs : procs[p].pc = "idle"
    /\ procs' = procs
    /\ ORDERS["o1"] # 0
    /\ res'[1].entry = entry
    /\ res'[1].order_id = "o1"

RecordUntouched ==
    /\ heap' = heap
    /\ ORDERS' = ORDERS
    /\ keyOrder' = keyOrder
    /\ ~res'[1].created.courier_called

AnsweredWithStoredRef ==
    /\ res'[1].created.already_exists
    /\ res'[1].created.external_delivery_ref = heap[ORDERS["o1"]].delivery_order_id

\* C37 as stated: a call of either creation endpoint with an order id the
\* table holds answers already_exists with the stored external delivery
\* reference, does not call the courier service and leaves the record as it
\* was.
C37_CreationIdempotent ==
    [][(CreateAgain("create_order") \/ CreateAgain("create_webapp_order"))
        => AnsweredWithStoredRef /\ RecordUntouched]_vars

\* C37: a call of either creation endpoint with an order id the table holds
\* leaves the record, its canonical status included, as it was and does not
\* call the courier service; create_order answers already_exists with the
\* stored external delivery reference, create_webapp_order answers
\* "kitchen not found" for an unregistered kitchen and otherwise
\* already_exists without any external delivery reference.
C37_CreationIdempotentByEndpoint ==
    [][/\ CreateAgain("create_order") => AnsweredWithStoredRef /\ RecordUntouched
       /\ CreateAgain("create_webapp_order") =>
            /\ RecordUntouched
            /\ \/ res'[1].out = "kitchen_not_found" /\ ~res'[1].created.already_exists
               \/ /\ res'[1].out = "ok"
                  /\ res'[1].created.already_exists
                  /\ res'[1].created.external_delivery_ref = None]_vars

\* create_order was called again for an order that a callback had already
\* moved to DELIVERED, and answered with the stored reference.
C37_Witness ==
    /\ R.entry = "create_order"
    /\ R.created.already_exists
    /\ R.created.external_delivery_ref = "x1"
    /\ heap[R.order].status = DELIVERED

====
